---- MODULE Spec2Model ----
(***************************************************************************)
(* Ceremony orchestration of frost-wasm-core (src/frost-wasm-core/src/     *)
(* lib.rs): the keygen and signing coordinators as pure functions over a   *)
(* caller-held, serialized ceremony state, and the result envelope every   *)
(* boundary operation returns.  The threshold-cryptography primitives      *)
(* (dkg::part1, dkg::part2, round1::commit, round2::sign, frost::aggregate)*)
(* are external: each is an opaque value constructor whose success is an   *)
(* input of the call.                                                      *)
(***************************************************************************)
EXTENDS Integers, Sequences, FiniteSets, TLC

\* ---------------------------------------------------------------- bounds
\* thresholds and participant counts are drawn from 0..MaxN
MaxN == 3
\* participant ids; the number is the lexicographic rank of the id string,
\* which is the iteration order of a BTreeMap<String, _>
MaxP == 3
\* longest signers list
MaxSigners == 2
\* distinct well-formed signing packages a caller may supply
MaxSP == 2
\* u16::MAX, the width of threshold, max_participants and identifiers
U16Max == 65535

Participants == 1..MaxP
\* what the process-wide OsRng yields: one opaque secret value per draw
Rnd == {"OsRng"}
ParamValues == 0..MaxN
Messages == {<<>>, <<7>>}
\* signers lists: every set of at most MaxSigners participants in id order,
\* and lists that repeat one id
SignerLists ==
    {l \in UNION {[1..n -> Participants] : n \in 0..MaxSigners} :
        \/ \A i \in 1..(Len(l) - 1) : l[i] < l[i + 1]
        \/ \A i \in 1..Len(l) : l[i] = 1}

\* ---------------------------------------------------------------- Option
None == <<>>
Some(x) == <<x>>
Unwrap(o) == o[1]

\* ------------------------------------------------------------- BTreeMap
BTreeMap_new == <<>>
BTreeMap_len(m) == Cardinality(DOMAIN m)
\* an insert that keeps the entry a key already has
BTreeMap_insert_if_absent(m, k, v) ==
    [x \in (DOMAIN m) \cup {k} |-> IF x \in DOMAIN m THEN m[x] ELSE v]
BTreeMap_insert(m, k, v) == [x \in (DOMAIN m) \cup {k} |-> IF x = k THEN v ELSE m[x]]
\* keys in ascending order, the order BTreeMap iteration visits them
RECURSIVE BTreeMap_keys(_)
BTreeMap_keys(m) ==
    IF DOMAIN m = {} THEN <<>>
    ELSE LET k == CHOOSE x \in DOMAIN m : \A y \in DOMAIN m : x <= y
         IN <<k>> \o BTreeMap_keys([x \in (DOMAIN m) \ {k} |-> m[x]])

\* `as u16` casts and FrostIdentifier::try_from, which rejects zero
AsU16(x) == x % (U16Max + 1)
Identifier_try_from(n) == IF n = 0 THEN None ELSE Some(n)

\* ----------------------------------------------------------- FrostError
\* the lookup failure is reported as a key generation failure
InvalidParticipant_as_keygen_error(detail) == [variant |-> "KeygenError", detail |-> detail]
InvalidParticipant(detail) == [variant |-> "InvalidParticipant", detail |-> detail]
InsufficientParticipants(required, actual) ==
    [variant |-> "InsufficientParticipants", required |-> required, actual |-> actual]
KeygenError(detail) == [variant |-> "KeygenError", detail |-> detail]
SigningError(detail) == [variant |-> "SigningError", detail |-> detail]
SerializationError(detail) == [variant |-> "SerializationError", detail |-> detail]
InvalidStateTransition(detail) == [variant |-> "InvalidStateTransition", detail |-> detail]

\* format!("{:?}", error): the derived Debug rendering of a FrostError
DebugFmt(error) ==
    IF error.variant = "InsufficientParticipants"
    THEN "InsufficientParticipants { required: " \o ToString(error.required)
             \o ", actual: " \o ToString(error.actual) \o " }"
    ELSE error.variant \o "(\"" \o error.detail \o "\")"

\* ---------------------------------------------------------- FrostResult
FrostResult_ok(data) == [success |-> TRUE, data |-> Some(data), error |-> None]
\* the error envelope loses its message
FrostResult_err_no_message(error) == [success |-> FALSE, data |-> None, error |-> None]
FrostResult_err(error) == [success |-> FALSE, data |-> None, error |-> Some(DebugFmt(error))]

\* Result<_, FrostError> of the inner closures.  working, calls and ids
\* record what the closure did before it returned: its private copy of the
\* state (dropped on return), the primitives it invoked, and the FROST
\* identifier it derived for each participant.
Ok(val, working, calls, ids) ==
    [ok |-> TRUE, val |-> val, working |-> working, calls |-> calls, ids |-> ids]
Err(error, working, calls, ids) ==
    [ok |-> FALSE, err |-> error, working |-> working, calls |-> calls, ids |-> ids]

\* the error envelope carries the closure's working copy of the state
match_result_partial(result) ==
    IF result.ok THEN FrostResult_ok(result.val)
    ELSE [FrostResult_err(result.err) EXCEPT
             !.data = IF result.working = None THEN None
                      ELSE Some(<<Unwrap(result.working), None>>)]
\* match result { Ok(v) => FrostResult::ok(v), Err(e) => FrostResult::err(e) }
match_result(result) ==
    IF result.ok THEN FrostResult_ok(result.val) ELSE FrostResult_err(result.err)

\* ---------------------------------------------------------------- serde
\* serde_json::to_string of a value is a one-element document, of a pair a
\* two-element document
to_string(v) == <<v>>
to_string_pair(a, b) == <<a, b>>
\* a document no from_str accepts (the empty string)
Malformed == <<>>

KeygenStateFields ==
    {"threshold", "max_participants", "current_round", "round1_packages",
     "key_packages", "group_public_key"}
SigningStateFields ==
    {"message", "current_round", "signers", "round1_packages",
     "signature_shares", "final_signature"}

\* serde_json::from_str::<FrostResult<S>>: data may be null, otherwise every
\* field of S must be present
from_str_FrostResult(state_json, fields) ==
    IF state_json = Malformed THEN None
    ELSE IF state_json.data = None THEN Some(state_json)
    ELSE IF fields \subseteq DOMAIN Unwrap(state_json.data) THEN Some(state_json)
    ELSE None

\* ------------------------------------------------------------ primitives
Commit(secret) == [commitment_to |-> secret]
\* dkg::part1(identifier, max_signers, min_signers, rng)
dkg_part1(identifier, max_signers, min_signers, rng) ==
    [secret |-> [identifier |-> identifier, coefficients |-> rng,
                 min_signers |-> min_signers, max_signers |-> max_signers],
     package |-> [commitment |-> Commit(rng)]]

\* ================================================================ KEYGEN

\* only a zero threshold is rejected
create_keygen_state_zero_only(threshold, max_participants) ==
    IF threshold = 0
    THEN FrostResult_err(InsufficientParticipants(threshold, max_participants))
    ELSE FrostResult_ok([threshold |-> threshold,
                         max_participants |-> max_participants,
                         current_round |-> 1,
                         round1_packages |-> BTreeMap_new,
                         key_packages |-> BTreeMap_new,
                         group_public_key |-> None])
create_keygen_state(threshold, max_participants) ==
    IF threshold = 0 \/ threshold > max_participants
    THEN FrostResult_err(InsufficientParticipants(threshold, max_participants))
    ELSE FrostResult_ok([threshold |-> threshold,
                         max_participants |-> max_participants,
                         current_round |-> 1,
                         round1_packages |-> BTreeMap_new,
                         key_packages |-> BTreeMap_new,
                         group_public_key |-> None])

\* round 1 stays open until max_participants packages are in
keygen_advance_at_max(state) ==
    IF BTreeMap_len(state.round1_packages) >= state.max_participants
    THEN [state EXCEPT !.current_round = 2]
    ELSE state
\* the round-2 switch forgets the quorum
keygen_advance_no_quorum(state) == [state EXCEPT !.current_round = 2]
\* "Check if we have enough participants to advance"
keygen_advance(state) ==
    IF BTreeMap_len(state.round1_packages) >= state.threshold
    THEN [state EXCEPT !.current_round = 2]
    ELSE state

keygen_round1(state_json, participant_id, rng, part1_ok) ==
    LET state_result == from_str_FrostResult(state_json, KeygenStateFields) IN
    IF state_result = None
    THEN Err(SerializationError("state"), None, {}, <<>>)
    ELSE IF Unwrap(state_result).data = None
    THEN Err(InvalidStateTransition("Invalid state provided"), None, {}, <<>>)
    ELSE
    LET state == Unwrap(Unwrap(state_result).data) IN
    IF state.current_round # 1
    THEN Err(InvalidStateTransition("Expected round 1, got round "
                                      \o ToString(state.current_round)),
             Some(state), {}, <<>>)
    ELSE IF BTreeMap_len(state.round1_packages) >= state.max_participants
    THEN Err(InsufficientParticipants(state.threshold, state.max_participants),
             Some(state), {}, <<>>)
    ELSE
    LET identifier == Identifier_try_from(AsU16(BTreeMap_len(state.round1_packages) + 1)) IN
    IF identifier = None
    THEN Err(KeygenError("Invalid identifier"), Some(state), {}, <<>>)
    ELSE IF ~part1_ok
    THEN Err(KeygenError("DKG round 1 failed"), Some(state), {"dkg::part1"}, <<>>)
    ELSE
    LET part1 == dkg_part1(Unwrap(identifier), state.max_participants, state.threshold, rng)
        package_serialized == to_string_pair(part1.secret, part1.package)
        inserted == [state EXCEPT !.round1_packages =
                        BTreeMap_insert(@, participant_id, package_serialized)]
        advanced == keygen_advance(inserted)
    IN Ok(<<advanced, package_serialized>>, Some(advanced), {"dkg::part1"},
          [p \in {participant_id} |-> Unwrap(identifier)])

\* serde_json::from_str of a stored or supplied round-1 document as the pair
\* (dkg::round1::SecretPackage, dkg::round1::Package)
from_str_round1_pair(document) ==
    IF /\ Len(document) = 2
       /\ {"identifier", "coefficients"} \subseteq DOMAIN document[1]
       /\ "commitment" \in DOMAIN document[2]
    THEN Some([secret |-> document[1], package |-> document[2]])
    ELSE None

\* dkg::part2(round1_secret, &received_round1_packages): the first component
\* is derived from the caller's own round-1 secret, the second holds one
\* entry per identifier in received_round1_packages
dkg_part2(round1_secret, received_round1_packages) ==
    [key_package |-> [identifier |-> round1_secret.identifier,
                      signing_share |-> [holder |-> round1_secret.identifier]],
     group_public_key |-> [verifying_shares |-> DOMAIN received_round1_packages]]

\* the loop of keygen_round2 over the caller-supplied collection, in key
\* order: keys still to visit, the identifier -> package map built so far,
\* and the identifier given to each peer so far
RECURSIVE collect_round1_packages(_, _, _, _, _)
collect_round1_packages(keys, all_round1_packages, participant_id, received, ids) ==
    IF keys = <<>> THEN [err |-> None, received |-> received, ids |-> ids]
    ELSE
    LET other_participant == Head(keys) IN
    IF other_participant = participant_id
    THEN collect_round1_packages(Tail(keys), all_round1_packages, participant_id, received, ids)
    ELSE
    LET parsed == from_str_round1_pair(all_round1_packages[other_participant]) IN
    IF parsed = None
    THEN [err |-> Some(SerializationError("Failed to deserialize package")),
          received |-> received, ids |-> ids]
    ELSE
    LET identifier == Identifier_try_from(AsU16(BTreeMap_len(received) + 2)) IN
    IF identifier = None
    THEN [err |-> Some(KeygenError("Invalid identifier")), received |-> received, ids |-> ids]
    ELSE collect_round1_packages(Tail(keys), all_round1_packages, participant_id,
             BTreeMap_insert(received, Unwrap(identifier), Unwrap(parsed).package),
             BTreeMap_insert(ids, other_participant, Unwrap(identifier)))

\* the group key is stored as soon as any key package is
keygen_all_completed_any(state) == BTreeMap_len(state.key_packages) >= 1
\* "If all participants have completed, store the group public key"
keygen_all_completed(state) == BTreeMap_len(state.key_packages) >= state.threshold

\* round1_packages_json is None when it is not a JSON map of strings
keygen_round2(state_json, participant_id, round1_packages_json, part2_ok) ==
    LET state_result == from_str_FrostResult(state_json, KeygenStateFields) IN
    IF state_result = None
    THEN Err(SerializationError("state"), None, {}, <<>>)
    ELSE IF Unwrap(state_result).data = None
    THEN Err(InvalidStateTransition("Invalid state provided"), None, {}, <<>>)
    ELSE
    LET state == Unwrap(Unwrap(state_result).data) IN
    IF state.current_round # 2
    THEN Err(InvalidStateTransition("Expected round 2, got round "
                                      \o ToString(state.current_round)),
             Some(state), {}, <<>>)
    ELSE IF round1_packages_json = None
    THEN Err(SerializationError("Failed to parse round1 packages"), Some(state), {}, <<>>)
    ELSE
    LET all_round1_packages == Unwrap(round1_packages_json) IN
    IF participant_id \notin DOMAIN state.round1_packages
    THEN Err(InvalidParticipant("Participant " \o ToString(participant_id)
                                  \o " not found in round 1"),
             Some(state), {}, <<>>)
    ELSE
    LET own == from_str_round1_pair(state.round1_packages[participant_id]) IN
    IF own = None
    THEN Err(SerializationError("Failed to deserialize round1 secret"), Some(state), {}, <<>>)
    ELSE
    LET collected == collect_round1_packages(BTreeMap_keys(all_round1_packages),
                         all_round1_packages, participant_id, BTreeMap_new, BTreeMap_new)
    IN
    IF collected.err # None
    THEN Err(Unwrap(collected.err), Some(state), {}, collected.ids)
    ELSE IF ~part2_ok
    THEN Err(KeygenError("DKG round 2 failed"), Some(state), {"dkg::part2"}, collected.ids)
    ELSE
    LET part2 == dkg_part2(Unwrap(own).secret, collected.received)
        key_package_serialized == to_string(part2.key_package)
        inserted == [state EXCEPT !.key_packages =
                        BTreeMap_insert(@, participant_id, key_package_serialized)]
        completed == IF keygen_all_completed(inserted)
                     THEN [inserted EXCEPT !.group_public_key =
                              Some(to_string(part2.group_public_key))]
                     ELSE inserted
    IN Ok(<<completed, key_package_serialized>>, Some(completed), {"dkg::part2"},
          collected.ids)

\* =============================================================== SIGNING

\* serde_json::from_str::<KeyPackage>
from_str_KeyPackage(document) ==
    IF Len(document) = 1 /\ {"identifier", "signing_share"} \subseteq DOMAIN document[1]
    THEN Some(document[1]) ELSE None
\* serde_json::from_str::<frost::SigningPackage>
from_str_SigningPackage(document) ==
    IF Len(document) = 1 /\ "signing_commitments" \in DOMAIN document[1]
    THEN Some(document[1]) ELSE None
\* serde_json::from_str::<PublicKeyPackage<Secp256K1Sha256>>
from_str_PublicKeyPackage(document) ==
    IF Len(document) = 1 /\ "verifying_shares" \in DOMAIN document[1]
    THEN Some(document[1]) ELSE None
\* serde_json::from_str of a stored round-1 document as the pair
\* (SigningNonces, SigningCommitments)
from_str_nonces_pair(document) ==
    IF Len(document) = 2 /\ "hiding" \in DOMAIN document[1]
                         /\ "hiding_commitment" \in DOMAIN document[2]
    THEN Some([nonces |-> document[1], commitments |-> document[2]])
    ELSE None
\* serde_json::from_str::<round2::SignatureShare>
from_str_SignatureShare(document) ==
    IF Len(document) = 1 /\ "share" \in DOMAIN document[1]
    THEN Some(document[1]) ELSE None

\* round1::commit(key_package.signing_share(), &mut OsRng)
round1_commit(signing_share, rng) ==
    [nonces |-> [hiding |-> rng], commitments |-> [hiding_commitment |-> Commit(rng)]]
\* round2::sign(&signing_package, &nonces, &key_package)
round2_sign(signing_package, nonces, key_package) ==
    [share |-> [signing_package |-> signing_package.signing_commitments,
                nonce |-> nonces.hiding,
                identifier |-> key_package.identifier]]
\* frost::aggregate(&signing_package, &signature_shares, &group_public_key)
frost_aggregate(signing_package, signature_shares, group_public_key) ==
    [signature |-> [signing_package |-> signing_package.signing_commitments,
                    shares |-> signature_shares]]

\* an empty signers list is accepted
create_signing_state_any_list(message, signers_json) ==
    match_result(
        IF signers_json = None
        THEN Err(SerializationError("signers"), None, {}, <<>>)
        ELSE Ok([message |-> message,
                 current_round |-> 1,
                 signers |-> Unwrap(signers_json),
                 round1_packages |-> BTreeMap_new,
                 signature_shares |-> BTreeMap_new,
                 final_signature |-> None], None, {}, <<>>))
\* signers_json is None when it is not a JSON list of strings
create_signing_state(message, signers_json) ==
    match_result(
        IF signers_json = None
        THEN Err(SerializationError("signers"), None, {}, <<>>)
        ELSE IF Len(Unwrap(signers_json)) = 0
        THEN Err(InsufficientParticipants(1, 0), None, {}, <<>>)
        ELSE Ok([message |-> message,
                 current_round |-> 1,
                 signers |-> Unwrap(signers_json),
                 round1_packages |-> BTreeMap_new,
                 signature_shares |-> BTreeMap_new,
                 final_signature |-> None], None, {}, <<>>))

\* "Check if we have enough participants to advance"
signing_advance(state) ==
    IF BTreeMap_len(state.round1_packages) >= Len(state.signers)
    THEN [state EXCEPT !.current_round = 2]
    ELSE state

\* the stored round-1 data is handed out instead of the commitments
commitments_serialized_with_nonces(commit) == to_string_pair(commit.nonces, commit.commitments)
\* "Return the commitments (public part) for coordination"
commitments_serialized(commit) == to_string(commit.commitments)

\* the key package is decoded before the round is checked
signing_round1_parse_first(state_json, participant_id, key_package_json, rng) ==
    LET state_result == from_str_FrostResult(state_json, SigningStateFields) IN
    IF state_result = None
    THEN Err(SerializationError("state"), None, {}, <<>>)
    ELSE IF Unwrap(state_result).data = None
    THEN Err(InvalidStateTransition("Invalid state provided"), None, {}, <<>>)
    ELSE
    LET state == Unwrap(Unwrap(state_result).data)
        key_package == from_str_KeyPackage(key_package_json)
    IN
    IF key_package = None
    THEN Err(SerializationError("Failed to deserialize key package"), Some(state), {}, <<>>)
    ELSE IF state.current_round # 1
    THEN Err(InvalidStateTransition("Expected round 1, got round "
                                      \o ToString(state.current_round)),
             Some(state), {}, <<>>)
    ELSE
    LET commit == round1_commit(Unwrap(key_package).signing_share, rng)
        round1_data == to_string_pair(commit.nonces, commit.commitments)
        inserted == [state EXCEPT !.round1_packages =
                        BTreeMap_insert(@, participant_id, round1_data)]
        advanced == signing_advance(inserted)
    IN Ok(<<advanced, commitments_serialized(commit)>>, Some(advanced), {"round1::commit"}, <<>>)
signing_round1(state_json, participant_id, key_package_json, rng) ==
    LET state_result == from_str_FrostResult(state_json, SigningStateFields) IN
    IF state_result = None
    THEN Err(SerializationError("state"), None, {}, <<>>)
    ELSE IF Unwrap(state_result).data = None
    THEN Err(InvalidStateTransition("Invalid state provided"), None, {}, <<>>)
    ELSE
    LET state == Unwrap(Unwrap(state_result).data) IN
    IF state.current_round # 1
    THEN Err(InvalidStateTransition("Expected round 1, got round "
                                      \o ToString(state.current_round)),
             Some(state), {}, <<>>)
    ELSE
    LET key_package == from_str_KeyPackage(key_package_json) IN
    IF key_package = None
    THEN Err(SerializationError("Failed to deserialize key package"), Some(state), {}, <<>>)
    ELSE
    LET commit == round1_commit(Unwrap(key_package).signing_share, rng)
        round1_data == to_string_pair(commit.nonces, commit.commitments)
        inserted == [state EXCEPT !.round1_packages =
                        BTreeMap_insert(@, participant_id, round1_data)]
        advanced == signing_advance(inserted)
    IN Ok(<<advanced, commitments_serialized(commit)>>, Some(advanced), {"round1::commit"}, <<>>)

\* the aggregation loop of signing_round2 over state.signature_shares, in
\* key order: keys still to visit, the enumeration index idx, the
\* identifier -> share map built so far and the identifier given to each
\* participant so far
RECURSIVE collect_signature_shares(_, _, _, _, _)
collect_signature_shares(keys, stored_shares, idx, signature_shares, ids) ==
    IF keys = <<>> THEN [err |-> None, signature_shares |-> signature_shares, ids |-> ids]
    ELSE
    LET participant == Head(keys)
        share == from_str_SignatureShare(stored_shares[participant])
    IN
    IF share = None
    THEN [err |-> Some(SerializationError("Failed to deserialize share")),
          signature_shares |-> signature_shares, ids |-> ids]
    ELSE
    LET identifier == Identifier_try_from(AsU16(idx + 1)) IN
    IF identifier = None
    THEN [err |-> Some(SigningError("Invalid identifier")),
          signature_shares |-> signature_shares, ids |-> ids]
    ELSE collect_signature_shares(Tail(keys), stored_shares, idx + 1,
             BTreeMap_insert(signature_shares, Unwrap(identifier), Unwrap(share)),
             BTreeMap_insert(ids, participant, Unwrap(identifier)))

\* aggregation starts with the first share
signing_all_signed_any(state) == BTreeMap_len(state.signature_shares) >= 1
\* "If all participants have signed, aggregate the signature"
signing_all_signed(state) == BTreeMap_len(state.signature_shares) >= Len(state.signers)

signing_round2(state_json, participant_id, key_package_json, signing_package_json, group_public_key_json, sign_ok, aggregate_ok) ==
    LET state_result == from_str_FrostResult(state_json, SigningStateFields) IN
    IF state_result = None
    THEN Err(SerializationError("state"), None, {}, <<>>)
    ELSE IF Unwrap(state_result).data = None
    THEN Err(InvalidStateTransition("Invalid state provided"), None, {}, <<>>)
    ELSE
    LET state == Unwrap(Unwrap(state_result).data) IN
    IF state.current_round # 2
    THEN Err(InvalidStateTransition("Expected round 2, got round "
                                      \o ToString(state.current_round)),
             Some(state), {}, <<>>)
    ELSE
    LET key_package == from_str_KeyPackage(key_package_json) IN
    IF key_package = None
    THEN Err(SerializationError("Failed to deserialize key package"), Some(state), {}, <<>>)
    ELSE
    LET signing_package == from_str_SigningPackage(signing_package_json) IN
    IF signing_package = None
    THEN Err(SerializationError("Failed to deserialize signing package"),
             Some(state), {}, <<>>)
    ELSE IF participant_id \notin DOMAIN state.round1_packages
    THEN Err(InvalidParticipant("Participant " \o ToString(participant_id)
                                  \o " not found in round 1"),
             Some(state), {}, <<>>)
    ELSE
    LET own == from_str_nonces_pair(state.round1_packages[participant_id]) IN
    IF own = None
    THEN Err(SerializationError("Failed to deserialize nonces"), Some(state), {}, <<>>)
    ELSE IF ~sign_ok
    THEN Err(SigningError("Failed to generate signature share"),
             Some(state), {"round2::sign"}, <<>>)
    ELSE
    LET signature_share == round2_sign(Unwrap(signing_package), Unwrap(own).nonces,
                                       Unwrap(key_package))
        signature_share_serialized == to_string(signature_share)
        inserted == [state EXCEPT !.signature_shares =
                        BTreeMap_insert(@, participant_id, signature_share_serialized)]
    IN
    IF signing_all_signed(inserted)
    THEN
        LET group_public_key == from_str_PublicKeyPackage(group_public_key_json) IN
        IF group_public_key = None
        THEN Err(SerializationError("Failed to deserialize group public key"),
                 Some(inserted), {"round2::sign"}, <<>>)
        ELSE
        LET collected == collect_signature_shares(BTreeMap_keys(inserted.signature_shares),
                             inserted.signature_shares, 0, BTreeMap_new, BTreeMap_new)
        IN
        IF collected.err # None
        THEN Err(Unwrap(collected.err), Some(inserted), {"round2::sign"}, collected.ids)
        ELSE IF ~aggregate_ok
        THEN Err(SigningError("Failed to aggregate signature"), Some(inserted),
                 {"round2::sign", "frost::aggregate"}, collected.ids)
        ELSE
        LET group_signature == frost_aggregate(Unwrap(signing_package),
                                   collected.signature_shares, Unwrap(group_public_key))
            final_sig_serialized == to_string(group_signature)
            finished == [inserted EXCEPT !.final_signature = Some(final_sig_serialized)]
        IN Ok(<<finished, Some(final_sig_serialized)>>, Some(finished),
              {"round2::sign", "frost::aggregate"}, collected.ids)
    ELSE Ok(<<inserted, None>>, Some(inserted), {"round2::sign"}, <<>>)

\* ============================================================= UTILITIES

\* frost::keys::generate_with_dealer(max_signers, min_signers, identifiers, rng):
\* one key package per identifier, and the group key
generate_with_dealer(max_signers, min_signers, identifiers, rng) ==
    [shares |-> [i \in identifiers |-> [identifier |-> i, signing_share |-> [holder |-> i]]],
     group_public_key |-> [verifying_shares |-> identifiers]]

\* private_key_hex is acknowledged and not used
generate_frost_shares(private_key_hex, threshold, max_participants, rng, dealer_ok) ==
    IF threshold = 0 \/ threshold > max_participants
    THEN Err(InsufficientParticipants(threshold, max_participants), None, {}, <<>>)
    ELSE IF \E i \in 1..max_participants : Identifier_try_from(i) = None
    THEN Err(KeygenError("Invalid identifier"), None, {}, <<>>)
    ELSE
    LET identifiers == {Unwrap(Identifier_try_from(i)) : i \in 1..max_participants}
        ids == [i \in identifiers |-> i]
    IN
    IF ~dealer_ok
    THEN Err(KeygenError("Trusted dealer failed"), None, {"generate_with_dealer"}, ids)
    ELSE
    LET dealt == generate_with_dealer(max_participants, threshold, identifiers, rng)
        serialized_shares == [i \in identifiers |-> to_string(dealt.shares[i])]
        group_public_key_serialized == to_string(dealt.group_public_key)
    IN Ok(<<group_public_key_serialized, serialized_shares>>, None,
          {"generate_with_dealer"}, ids)

\* serde_json::from_str::<frost::Signature>
from_str_Signature(document) ==
    IF Len(document) = 1 /\ "signature" \in DOMAIN document[1]
    THEN Some(document[1]) ELSE None

\* verified is the answer of verifying_key().verify(message, &signature)
verify_signature(message, signature_json, group_public_key_json, verified) ==
    IF from_str_Signature(signature_json) = None
    THEN Err(SerializationError("Failed to deserialize signature"), None, {}, <<>>)
    ELSE IF from_str_PublicKeyPackage(group_public_key_json) = None
    THEN Err(SerializationError("Failed to deserialize group public key"), None, {}, <<>>)
    ELSE Ok(verified, None, {"verify"}, <<>>)

\* ================================================================= STATE
\* held: the state_json the caller holds and passes to the next call
\* last: the boundary call that has just returned and whose envelope the
\*       caller has not taken over yet: operation, participant, the other
\*       arguments, the envelope returned, and what the closure did;
\*       op = "none" when no call is outstanding
VARIABLES held, last
vars == <<held, last>>

Call(op, pid, args, env, result, inputs_ok) ==
    [op |-> op, pid |-> pid, args |-> args, env |-> env,
     working |-> result.working, calls |-> result.calls, ids |-> result.ids,
     inputs_ok |-> inputs_ok]

NoClosure == [working |-> None, calls |-> {}, ids |-> <<>>]
NoCall == Call("none", 0, <<>>, Malformed, NoClosure, TRUE)

\* the caller holds no ceremony state: nothing yet, or a failed creation
NoCeremony(state_json) ==
    IF state_json = Malformed THEN TRUE ELSE state_json.data = None
IsKeygenJson(state_json) ==
    IF NoCeremony(state_json) THEN TRUE
    ELSE KeygenStateFields \subseteq DOMAIN Unwrap(state_json.data)
IsSigningJson(state_json) ==
    IF NoCeremony(state_json) THEN TRUE
    ELSE SigningStateFields \subseteq DOMAIN Unwrap(state_json.data)

\* A state object is created once per ceremony.
CreateKeygenState ==
    /\ last.op = "none"
    /\ NoCeremony(held)
    /\ \E threshold \in ParamValues, max_participants \in ParamValues :
        last' = Call("createKeygenState", 0, <<threshold, max_participants>>,
                     create_keygen_state(threshold, max_participants), NoClosure, TRUE)
    /\ UNCHANGED held

KeygenRound1 ==
    /\ last.op = "none"
    /\ IsKeygenJson(held)
    /\ \E participant_id \in Participants, rng \in Rnd, part1_ok \in BOOLEAN :
        LET result == keygen_round1(held, participant_id, rng, part1_ok) IN
        last' = Call("keygenRound1", participant_id, <<>>, match_result(result),
                     result, part1_ok)
    /\ UNCHANGED held

\* A round-1 package of a participant this coordinator state has not seen
ForeignRound1Package ==
    to_string_pair(dkg_part1(1, 2, 2, "OsRng").secret,
                   dkg_part1(1, 2, 2, "OsRng").package)

\* The round-1 packages stored in a state_json
StoredRound1(state_json) ==
    IF NoCeremony(state_json) THEN BTreeMap_new
    ELSE Unwrap(state_json.data).round1_packages

\* What a caller may supply as round1_packages_json, with the outcome of
\* dkg::part2: a document that is not a map; the packages round 1 produced,
\* with part2 succeeding or failing; those with the first one undecodable;
\* those plus a foreign package for every other id
KeygenRound2Inputs(state_json) ==
    LET stored == StoredRound1(state_json) IN
    {[round1_packages_json |-> None, part2_ok |-> TRUE],
     [round1_packages_json |-> Some(stored), part2_ok |-> TRUE],
     [round1_packages_json |-> Some(stored), part2_ok |-> FALSE],
     [round1_packages_json |->
         Some([p \in DOMAIN stored |->
                 IF \A q \in DOMAIN stored : p <= q THEN Malformed ELSE stored[p]]),
      part2_ok |-> TRUE],
     [round1_packages_json |->
         Some([p \in Participants |->
                 IF p \in DOMAIN stored THEN stored[p] ELSE ForeignRound1Package]),
      part2_ok |-> TRUE]}

KeygenRound2 ==
    /\ last.op = "none"
    /\ IsKeygenJson(held)
    /\ \E participant_id \in Participants, in \in KeygenRound2Inputs(held) :
        LET result == keygen_round2(held, participant_id, in.round1_packages_json,
                                    in.part2_ok)
        IN last' = Call("keygenRound2", participant_id, in, match_result(result),
                        result, in.part2_ok)
    /\ UNCHANGED held

\* signers_json a caller may supply: not a list, or a list of ids
SignersInputs == {None} \cup {Some(l) : l \in SignerLists}

CreateSigningState ==
    /\ last.op = "none"
    /\ NoCeremony(held)
    /\ \E message \in Messages, signers_json \in SignersInputs :
        last' = Call("createSigningState", 0, <<message, signers_json>>,
                     create_signing_state(message, signers_json), NoClosure, TRUE)
    /\ UNCHANGED held

\* The key package of a key holder: key generation, joined in id order,
\* fixed its identifier
KeyPackageOf(participant_id) ==
    to_string([identifier |-> participant_id,
               signing_share |-> [holder |-> participant_id]])
\* signing_package_json a caller may supply
SigningPackageInputs ==
    {Malformed} \cup {to_string([signing_commitments |-> c]) : c \in 1..MaxSP}

SigningRound1 ==
    /\ last.op = "none"
    /\ IsSigningJson(held)
    /\ \E participant_id \in Participants, rng \in Rnd :
       \E key_package_json \in {Malformed, KeyPackageOf(participant_id)} :
        LET result == signing_round1(held, participant_id, key_package_json, rng) IN
        last' = Call("signingRound1", participant_id, <<key_package_json>>, match_result(result),
                     result, key_package_json # Malformed)
    /\ UNCHANGED held

\* The inputs and primitive outcomes of one signing_round2 call that go
\* well: the caller's key package, any signing package, the group key
SigningRound2Good(participant_id) ==
    {[key_package_json |-> KeyPackageOf(participant_id),
      signing_package_json |-> s,
      group_public_key_json |-> to_string([verifying_shares |-> Participants]),
      sign_ok |-> TRUE, aggregate_ok |-> TRUE] :
        s \in SigningPackageInputs \ {Malformed}}
\* those, or exactly one input undecodable, or exactly one primitive failing
SigningRound2Inputs(participant_id) ==
    LET one == CHOOSE g \in SigningRound2Good(participant_id) :
                   g.signing_package_json[1].signing_commitments = 1
    IN SigningRound2Good(participant_id) \cup
          {[one EXCEPT !.key_package_json = Malformed],
           [one EXCEPT !.signing_package_json = Malformed],
           [one EXCEPT !.group_public_key_json = Malformed],
           [one EXCEPT !.sign_ok = FALSE],
           [one EXCEPT !.aggregate_ok = FALSE]}

SigningRound2 ==
    /\ last.op = "none"
    /\ IsSigningJson(held)
    /\ \E participant_id \in Participants :
       \E in \in SigningRound2Inputs(participant_id) :
        LET result == signing_round2(held, participant_id, in.key_package_json,
                          in.signing_package_json, in.group_public_key_json,
                          in.sign_ok, in.aggregate_ok)
        IN last' = Call("signingRound2", participant_id, in, match_result(result),
                        result, in \in SigningRound2Good(participant_id))
    /\ UNCHANGED held

\* The utilities take no ceremony state; they are called outside a ceremony.
GenerateFrostShares ==
    /\ last.op = "none"
    /\ NoCeremony(held)
    /\ \E threshold \in ParamValues, max_participants \in ParamValues :
       \E rng \in Rnd, dealer_ok \in BOOLEAN :
        LET result == generate_frost_shares("", threshold, max_participants, rng, dealer_ok)
        IN last' = Call("generateFrostShares", 0, <<threshold, max_participants>>,
                        match_result(result), result, dealer_ok)
    /\ UNCHANGED held

\* signature_json and group_public_key_json a caller may supply
SignatureInputs ==
    {Malformed, to_string([signature |-> [signing_package |-> 1, shares |-> <<>>]])}
GroupPublicKeyInputs == {Malformed, to_string([verifying_shares |-> Participants])}

VerifySignature ==
    /\ last.op = "none"
    /\ NoCeremony(held)
    /\ \E message \in Messages, signature_json \in SignatureInputs :
       \E group_public_key_json \in GroupPublicKeyInputs, verified \in BOOLEAN :
        LET result == verify_signature(message, signature_json, group_public_key_json,
                                       verified)
        IN last' = Call("verifySignature", 0,
                        <<message, signature_json, group_public_key_json>>,
                        match_result(result), result, TRUE)
    /\ UNCHANGED held

\* What the caller holds once a call has returned: the envelope of a
\* creation; the state a round envelope carries, re-wrapped as the
\* FrostResult<State> document the next call parses; and otherwise (a
\* failed round call, a utility) the state_json it already had.
Adopt(state_json, call) ==
    IF call.op \in {"createKeygenState", "createSigningState"} THEN call.env
    ELSE IF call.op \in {"generateFrostShares", "verifySignature"} THEN state_json
    ELSE IF call.env.data # None THEN FrostResult_ok(Unwrap(call.env.data)[1])
    ELSE state_json

\* The caller takes over the returned envelope.
Handoff ==
    /\ last.op # "none"
    /\ held' = Adopt(held, last)
    /\ last' = NoCall

\* Before any call the caller holds no state document.
Init ==
    /\ held = Malformed
    /\ last = NoCall

Next ==
    \/ CreateKeygenState
    \/ KeygenRound1
    \/ KeygenRound2
    \/ CreateSigningState
    \/ SigningRound1
    \/ SigningRound2
    \/ GenerateFrostShares
    \/ VerifySignature
    \/ Handoff

Spec == Init /\ [][Next]_vars

\* ================================================================ CLAIMS
HasState(state_json) == ~NoCeremony(state_json)
StateOf(state_json) == Unwrap(state_json.data)
HeldKeygen == HasState(held) /\ KeygenStateFields \subseteq DOMAIN StateOf(held)
HeldSigning == HasState(held) /\ SigningStateFields \subseteq DOMAIN StateOf(held)
RoundOps == {"keygenRound1", "keygenRound2", "signingRound1", "signingRound2"}
\* the call that has just returned was this round operation on a ceremony state
OnCeremony(op) == last.op = op /\ HasState(held)
\* the state the call was given, and the state and output of a success payload
Pre == StateOf(held)
New == Unwrap(last.env.data)[1]
Output == Unwrap(last.env.data)[2]
\* the FROST identifier inside a stored round-1 document of keygen
IdentifierOf(document) == document[1].identifier

\* C1: in both ceremonies currentRound never decreases over a call, and a
\* state in round 2 has met the round-1 quorum: at least T round-1 packages
\* in keygen, exactly |signers| in signing.
C1_RoundMonotonic ==
    /\ (last.op \in RoundOps /\ HasState(held) /\ last.env.success)
          => New.current_round >= Pre.current_round
    /\ HasState(held) => Pre.current_round \in {1, 2}
    /\ (HeldKeygen /\ Pre.current_round = 2)
          => BTreeMap_len(Pre.round1_packages) >= Pre.threshold
    /\ (HeldSigning /\ Pre.current_round = 2)
          => BTreeMap_len(Pre.round1_packages) = Len(Pre.signers)
\* a keygenRound1 call that moved a multi-party ceremony from round 1 to 2
C1_Witness ==
    /\ OnCeremony("keygenRound1") /\ last.env.success
    /\ Pre.current_round = 1 /\ New.current_round = 2 /\ New.threshold >= 2

\* C2: from createKeygenState(2,3), keygenRound1 by each of three distinct
\* participants succeeds, the round being 2 exactly from the second on; a
\* keygenRound2 by a round-1 participant then leaves groupPublicKey
\* populated exactly when it is the second key package.
C2_Scenario ==
    (last.op \in {"keygenRound1", "keygenRound2"} /\ HasState(held)
        /\ Pre.threshold = 2 /\ Pre.max_participants = 3 /\ last.inputs_ok)
    =>
    /\ (last.op = "keygenRound1" /\ last.pid \notin DOMAIN Pre.round1_packages)
          => /\ last.env.success
             /\ New.current_round = 2 <=> BTreeMap_len(New.round1_packages) >= 2
    /\ (last.op = "keygenRound2" /\ last.env.success)
          => (New.group_public_key # None <=> BTreeMap_len(New.key_packages) >= 2)

\* C3: a successful signingRound2 returns and stores a finalSignature
\* exactly when, with the caller's share stored, there are at least
\* |signers| shares, and returns None otherwise; finalSignature populated
\* implies |signatureShares| >= |signers|.  With two signers the round is 2
\* after both submitted round 1, the first signingRound2 returns None and
\* the second, by the other signer, the finalSignature.
C3_FinalSignature ==
    /\ (OnCeremony("signingRound2") /\ last.env.success)
          => /\ last.pid \in DOMAIN New.signature_shares
             /\ Output # None
                   <=> BTreeMap_len(New.signature_shares) >= Len(New.signers)
             /\ New.final_signature = Output
             /\ (Len(New.signers) = 2 /\ DOMAIN Pre.signature_shares = {})
                   => Output = None
             /\ (Len(New.signers) = 2 /\ BTreeMap_len(Pre.signature_shares) = 1
                    /\ last.pid \notin DOMAIN Pre.signature_shares)
                   => Output # None
    /\ (OnCeremony("signingRound1") /\ last.env.success /\ Len(New.signers) = 2)
          => (New.current_round = 2 <=> BTreeMap_len(New.round1_packages) = 2)
    /\ (HeldSigning /\ Pre.final_signature # None)
          => BTreeMap_len(Pre.signature_shares) >= Len(Pre.signers)
\* the second signingRound2 of signers [p1, p2] returned the finalSignature
C3_Witness ==
    /\ OnCeremony("signingRound2") /\ last.env.success
    /\ New.signers = <<1, 2>> /\ DOMAIN Pre.signature_shares = {1} /\ last.pid = 2
    /\ Output # None /\ New.final_signature = Output

\* C4: every keygen state has 1 <= T <= N, a groupPublicKey only with at
\* least T key packages, and at most N round-1 packages and key packages.
C4_KeygenInvariant ==
    HeldKeygen =>
        /\ 1 <= Pre.threshold /\ Pre.threshold <= Pre.max_participants
        /\ Pre.group_public_key # None
              => BTreeMap_len(Pre.key_packages) >= Pre.threshold
        /\ BTreeMap_len(Pre.round1_packages) <= Pre.max_participants
        /\ BTreeMap_len(Pre.key_packages) <= Pre.max_participants
\* a multi-party keygen state whose group key is populated, as the caller
\* holds it after keygenRound2
C4_Witness ==
    /\ HeldKeygen /\ last.op = "none"
    /\ Pre.group_public_key # None /\ Pre.threshold >= 2
    /\ BTreeMap_len(Pre.key_packages) = Pre.threshold

\* C5: a round operation that fails, also after its working copy was
\* changed, returns an error envelope without state, and the caller is left
\* with exactly the state it passed in.
C5_Transactional ==
    (last.op \in RoundOps /\ ~last.env.success)
        => /\ last.env.data = None
           /\ last.env.error # None
           /\ Adopt(held, last) = held
\* signingRound2 failed in aggregation after the share went into its copy
C5_Witness ==
    /\ OnCeremony("signingRound2") /\ ~last.env.success
    /\ "frost::aggregate" \in last.calls
    /\ last.working # None /\ Unwrap(last.working) # Pre
    /\ last.pid \in DOMAIN Unwrap(last.working).signature_shares
    /\ Adopt(held, last) = held

C7_IdentifierAgreement ==
    (OnCeremony("keygenRound2") /\ last.pid \in DOMAIN Pre.round1_packages)
    => \A peer \in DOMAIN last.ids :
          /\ peer \in DOMAIN Pre.round1_packages
                => last.ids[peer] = IdentifierOf(Pre.round1_packages[peer])
          /\ last.ids[peer] # IdentifierOf(Pre.round1_packages[last.pid])

\* C8: the package keygenRound1 returns for distribution holds no part of
\* the participant's round-1 secret.
C8_Round1PackagePublic ==
    (OnCeremony("keygenRound1") /\ last.env.success)
    => \A i \in 1..Len(Output) : "coefficients" \notin DOMAIN Output[i]

\* C9: the distribution output of signingRound1 is the public commitment of
\* the stored entry and holds no nonce; the nonce is in the state's
\* round1Packages entry of that participant.
C9_CommitmentOnly ==
    (OnCeremony("signingRound1") /\ last.env.success)
    => /\ \A i \in 1..Len(Output) : "hiding" \notin DOMAIN Output[i]
       /\ Output = <<New.round1_packages[last.pid][2]>>
       /\ "hiding" \in DOMAIN New.round1_packages[last.pid][1]
\* a successful signingRound1
C9_Witness ==
    /\ OnCeremony("signingRound1") /\ last.env.success
    /\ last.pid \in DOMAIN New.round1_packages

\* C10: createKeygenState(T, N) succeeds iff 1 <= T <= N; on success the
\* state is at round 1 with empty maps and no group key; on failure the
\* error is InsufficientParticipants { required: T, actual: N }.
C10_CreateKeygen ==
    last.op = "createKeygenState" =>
        LET T == last.args[1]
            N == last.args[2]
        IN /\ last.env.success <=> (1 <= T /\ T <= N)
           /\ last.env.success =>
                 /\ last.env.error = None
                 /\ last.env.data =
                       Some([threshold |-> T, max_participants |-> N,
                             current_round |-> 1, round1_packages |-> <<>>,
                             key_packages |-> <<>>, group_public_key |-> None])
           /\ ~last.env.success =>
                 /\ last.env.data = None
                 /\ last.env.error =
                       Some("InsufficientParticipants { required: " \o ToString(T)
                            \o ", actual: " \o ToString(N) \o " }")
\* a creation rejected because the threshold exceeds the participant count
C10_Witness ==
    /\ last.op = "createKeygenState" /\ ~last.env.success
    /\ last.args[1] > last.args[2] /\ last.args[2] >= 1

\* the error an envelope carries when the closure returned this FrostError
ErrorIs(error) == last.env.error = Some(DebugFmt(error))
\* the round a round operation requires
ExpectedRound(op) == IF op \in {"keygenRound1", "signingRound1"} THEN 1 ELSE 2
WrongRound(round) ==
    InvalidStateTransition("Expected round " \o ToString(ExpectedRound(last.op))
                           \o ", got round " \o ToString(round))

\* C11: createSigningState(message, signers) fails with
\* InsufficientParticipants { required: 1, actual: 0 } for the empty list,
\* whatever the message; for a non-empty list it succeeds with round 1, the
\* given message and signers, empty maps and no finalSignature.
C11_CreateSigning ==
    (last.op = "createSigningState" /\ last.args[2] # None) =>
        LET message == last.args[1]
            signers == Unwrap(last.args[2])
        IN IF Len(signers) = 0
           THEN /\ ~last.env.success
                /\ last.env.data = None
                /\ last.env.error =
                      Some("InsufficientParticipants { required: 1, actual: 0 }")
           ELSE /\ last.env.success
                /\ last.env.error = None
                /\ last.env.data =
                      Some([message |-> message, current_round |-> 1,
                            signers |-> signers, round1_packages |-> <<>>,
                            signature_shares |-> <<>>, final_signature |-> None])
\* the empty signers list rejected for a non-empty message
C11_Witness ==
    /\ last.op = "createSigningState" /\ last.args[1] # <<>>
    /\ last.args[2] = Some(<<>>) /\ ~last.env.success

\* C12: a round operation on a ceremony state in the wrong round fails with
\* InvalidStateTransition and calls no primitive, whatever its other
\* arguments and whatever else is wrong with the state (participant limit
\* reached, participant unknown).
C12_WrongRound ==
    (last.op \in RoundOps /\ HasState(held)
        /\ Pre.current_round # ExpectedRound(last.op))
    => /\ ~last.env.success
       /\ ErrorIs(WrongRound(Pre.current_round))
       /\ last.calls = {}
\* keygenRound1 in round 2 with the participant limit reached as well
C12_Witness ==
    /\ OnCeremony("keygenRound1") /\ Pre.current_round = 2
    /\ BTreeMap_len(Pre.round1_packages) >= Pre.max_participants
    /\ ErrorIs(WrongRound(2)) /\ last.calls = {}

\* a round-2 call on a round-2 state for a participant without round-1 entry
AbsentInRound2 ==
    /\ last.op \in {"keygenRound2", "signingRound2"} /\ HasState(held)
    /\ Pre.current_round = 2
    /\ last.pid \notin DOMAIN Pre.round1_packages
\* the rendering of InvalidParticipant for the participant of the call
NotFound ==
    Some("InvalidParticipant(\"Participant " \o ToString(last.pid)
         \o " not found in round 1\")")
\* the documents a round-2 handler decodes before it looks the participant
\* up: the round-1 collection in keygen, the key package and the signing
\* package in signing
DecodedBeforeLookup ==
    IF last.op = "keygenRound2" THEN last.args.round1_packages_json # None
    ELSE /\ from_str_KeyPackage(last.args.key_package_json) # None
         /\ from_str_SigningPackage(last.args.signing_package_json) # None

\* C13 (as claimed): in round 2 of either ceremony a call for a participant
\* without an entry in round1Packages fails with InvalidParticipant and
\* stores nothing for that participant.
C13_AbsentParticipant ==
    AbsentInRound2 => /\ ~last.env.success
                      /\ last.env.error = NotFound
                      /\ Adopt(held, last) = held
\* C13 (amended): such a call always fails, calls no primitive and stores
\* nothing; the error is InvalidParticipant when the documents decoded
\* before the lookup are well-formed and SerializationError otherwise.
C13_AbsentParticipantDecoded ==
    AbsentInRound2 =>
        /\ ~last.env.success /\ last.env.data = None
        /\ last.calls = {}
        /\ Adopt(held, last) = held
        /\ IF DecodedBeforeLookup THEN last.env.error = NotFound
           ELSE \/ ErrorIs(SerializationError("Failed to parse round1 packages"))
                \/ ErrorIs(SerializationError("Failed to deserialize key package"))
                \/ ErrorIs(SerializationError("Failed to deserialize signing package"))
\* signingRound2 with well-formed documents for a participant without nonce
C13_Witness ==
    /\ AbsentInRound2 /\ last.op = "signingRound2" /\ DecodedBeforeLookup
    /\ last.env.error = NotFound
    /\ last.pid \notin DOMAIN Pre.signature_shares

\* C14: once groupPublicKey (keygen) or finalSignature (signing) is
\* populated, no later successful round operation returns a state that
\* differs from the one it was given.
C14_CompleteTerminal ==
    (last.op \in RoundOps /\ HasState(held) /\ last.env.success)
    => /\ (HeldKeygen /\ Pre.group_public_key # None) => New = Pre
       /\ (HeldSigning /\ Pre.final_signature # None) => New = Pre

\* C15: every identifier the keygen coordinator assigns, to the caller in
\* keygenRound1 and to each peer in keygenRound2, lies in 1..N, whatever
\* collection of round-1 packages the caller supplies.
C15_IdentifierRange ==
    (last.op \in {"keygenRound1", "keygenRound2"} /\ HasState(held))
    => \A p \in DOMAIN last.ids :
          1 <= last.ids[p] /\ last.ids[p] <= Pre.max_participants

\* C16: every envelope a boundary operation returns has exactly one of
\* data and error populated, data exactly when success is true.
C16_Envelope ==
    last.op # "none" =>
        /\ last.env.success \in BOOLEAN
        /\ last.env.success <=> last.env.data # None
        /\ last.env.data # None <=> last.env.error = None
        /\ Len(last.env.data) <= 1 /\ Len(last.env.error) <= 1
\* verifySignature rejecting an undecodable group key with an error envelope
C16_Witness ==
    /\ last.op = "verifySignature" /\ ~last.env.success
    /\ last.args[2] # Malformed /\ last.args[3] = Malformed
    /\ last.env.data = None /\ last.env.error # None

\* the key-generation identifier inside a stored signature share: round2::sign
\* takes it from the participant's key package
KeyIdentifierOf(share_document) == share_document[1].share.identifier

\* C17: when signingRound2 aggregates, the identifier each participant's
\* signature share is keyed by is the identifier of that participant's key
\* package, the one key generation assigned (stated for shares of listed
\* signers).
C17_ShareIdentifier ==
    (OnCeremony("signingRound2") /\ last.working # None /\ DOMAIN last.ids # {}
        /\ \A p \in DOMAIN last.ids : \E i \in 1..Len(Pre.signers) : Pre.signers[i] = p)
    => \A p \in DOMAIN last.ids :
          last.ids[p] = KeyIdentifierOf(Unwrap(last.working).signature_shares[p])

\* C18: over the signingRound2 calls on a ceremony, the nonce a participant
\* committed in signingRound1 yields signature shares for one signing
\* package only: a share that replaces the participant's stored share and
\* comes from the same nonce is for the same signing package.
C18_NonceOnce ==
    (OnCeremony("signingRound2") /\ last.env.success
        /\ last.pid \in DOMAIN Pre.signature_shares)
    => LET old == Pre.signature_shares[last.pid][1].share
           new == New.signature_shares[last.pid][1].share
       IN old.nonce = new.nonce => old.signing_package = new.signing_package

\* C19: in every keygen state the identifiers keygenRound1 assigned to the
\* participants in round1Packages are pairwise distinct.
C19_DistinctIdentifiers ==
    HeldKeygen =>
        \A p, q \in DOMAIN Pre.round1_packages :
            p # q => IdentifierOf(Pre.round1_packages[p])
                        # IdentifierOf(Pre.round1_packages[q])

\* C20: in every keygen state |round1Packages| <= T, currentRound = 2
\* exactly when |round1Packages| = T, and every key of keyPackages is a key
\* of round1Packages; keygenRound1 never answers InsufficientParticipants:
\* it fails only by the round check or by the failure of dkg::part1.
C20_AdmitsThreshold ==
    /\ HeldKeygen =>
          /\ BTreeMap_len(Pre.round1_packages) <= Pre.threshold
          /\ Pre.current_round = 2
                <=> BTreeMap_len(Pre.round1_packages) = Pre.threshold
          /\ DOMAIN Pre.key_packages \subseteq DOMAIN Pre.round1_packages
    /\ (OnCeremony("keygenRound1") /\ ~last.env.success)
          => last.env.error \in
                {Some("InvalidStateTransition(\"Expected round 1, got round 2\")"),
                 Some("KeygenError(\"DKG round 1 failed\")")}
\* with T < N, a further participant is turned away once T have joined,
\* by the round check
C20_Witness ==
    /\ OnCeremony("keygenRound1") /\ ~last.env.success
    /\ Pre.threshold < Pre.max_participants
    /\ BTreeMap_len(Pre.round1_packages) = Pre.threshold
    /\ last.pid \notin DOMAIN Pre.round1_packages
    /\ ErrorIs(WrongRound(2))

\* the participants a signers list names
Listed(signers) == {signers[i] : i \in 1..Len(signers)}

\* C21: in every signing state every key of round1Packages and every key of
\* signatureShares is a member of signers.
C21_OnlyListedSigners ==
    HeldSigning =>
        /\ DOMAIN Pre.round1_packages \subseteq Listed(Pre.signers)
        /\ DOMAIN Pre.signature_shares \subseteq Listed(Pre.signers)

\* C22: in a signing ceremony with any non-empty signers list, repeated ids
\* included, once every listed participant has submitted signingRound1 the
\* round is 2, and once every listed participant has submitted
\* signingRound2 the finalSignature is populated.
C22_SigningProgress ==
    HeldSigning =>
        /\ Listed(Pre.signers) \subseteq DOMAIN Pre.round1_packages
              => Pre.current_round = 2
        /\ Listed(Pre.signers) \subseteq DOMAIN Pre.signature_shares
              => Pre.final_signature # None

====
